---- MODULE Spec2Model ----
(***************************************************************************)
(* lxml.sax: the SAX adapter of lxml (src/src/lxml/sax.py).                *)
(*                                                                         *)
(*   ElementTreeContentHandler  builds a tree from SAX events              *)
(*   ElementTreeProducer        fires the SAX events of a tree             *)
(*                                                                         *)
(* Conventions of the model.                                               *)
(*   - Python's None is the string "None"; the any-prefix flag -1 of       *)
(*     _build_qname is the string "-1" (TLC compares strings only with     *)
(*     strings).  No prefix, URI or name of the model is one of these.     *)
(*   - A str is a sequence of one-character strings; None and '' are both  *)
(*     the empty sequence (the code only ever tests text for truth and     *)
(*     reads it as `x or ''`).                                             *)
(*   - A tag in Clark notation, "{uri}local", is the token sequence        *)
(*     <<"{", uri, "}", local>>; a bare tag "local" is <<local>>.  A       *)
(*     qualified name "prefix:local" is <<prefix, ":", local>>.            *)
(*   - A dict is a function; d.get(k) is Get(d, k).                        *)
(*   - A tree is a sequence of nodes in document order, each with the      *)
(*     index of its parent (0 at document level).                          *)
(***************************************************************************)
EXTENDS Integers, Sequences, FiniteSets, TLC

\* The fields of the records of the model: events, nodes, activations of
\* _recursive_saxify and calls of _build_qname.  Every record below lists
\* its fields in this order.
Fields ==
    [type |-> 0, node |-> 0, kind |-> 0, tag |-> 0, element |-> 0, at |-> 0,
     prefix |-> 0, uri |-> 0, name |-> 0, qname |-> 0, attributes |-> 0, qnames |-> 0,
     target |-> 0, data |-> 0, text |-> 0, tail |-> 0, nsmap |-> 0,
     attrib |-> 0, children |-> 0, parent |-> 0, new_prefixes |-> 0, i |-> 0,
     ns_uri |-> 0, local_name |-> 0, prefixes |-> 0, preferred_prefix |-> 0]

VARIABLES
    \* ElementTreeContentHandler (sax.py 36-46)
    root,            \* _root: index into nodes, 0 for None
    root_siblings,   \* _root_siblings: indices of buffered PIs
    element_stack,   \* _element_stack: indices of the open elements
    default_ns,      \* _default_ns
    ns_mapping,      \* _ns_mapping: prefix -> list of uris
    new_mappings,    \* _new_mappings: prefix -> uri
    nodes,           \* the nodes the handler has created, in creation order
    preceding,       \* the siblings placed before the root by addprevious
    \* the call the handler received last, and how it ended
    ev,              \* the last event
    nev,             \* number of events received
    err,             \* the exception that ended the operation, or None
    chars_before,    \* value of the text/tail under the cursor when the
                     \* current run of characters events began
    chars_run,       \* payloads of the current run, concatenated
    \* ElementTreeProducer (sax.py 160-169) and its walk
    doc,             \* the tree of _element: nodes in document order
    handler,         \* _content_handler: "ElementTreeContentHandler" or a
                     \* plain "ContentHandler" that accepts every event
    pc,              \* position in saxify()
    siblings,        \* saxify(): the leading siblings still to replay
    sibling,         \* saxify(): the cursor of the trailing-sibling loop
    frames,          \* the activations of _recursive_saxify, innermost last
    events,          \* every event fired at the content handler, in order
    \* a call of _build_qname on its own
    qcall,           \* its arguments
    qres             \* its result, or "pending"

builder == <<root, root_siblings, element_stack, default_ns, ns_mapping,
             new_mappings, nodes, preceding, chars_before, chars_run>>
producer == <<doc, handler, pc, siblings, sibling, frames, events>>
resolver == <<qcall, qres>>
vars == <<builder, ev, nev, err, producer, resolver>>

----------------------------------------------------------------------------
(* Bounds of the model *)

\* events fed to a handler that is driven directly
MaxEvents == 5
\* nodes of the subtree of a walked element
MaxNodes == 3
\* processing instructions / comments before the walked element
MaxLead == 2
\* processing instructions / comments after the walked element
MaxTrail == 1

----------------------------------------------------------------------------
(* Values *)

None == "None"
AnyPrefix == "-1"

NoErr == None
EmptyMap == [k \in {} |-> None]
EmptyStr == << >>

Get(d, k) == IF k \in DOMAIN d THEN d[k] ELSE None
Put(d, k, v) == [x \in DOMAIN d \cup {k} |-> IF x = k THEN v ELSE d[x]]

\* Python truth of a str-or-None
Truthy(x) == x # None /\ x # ""

Last(s) == s[Len(s)]
Front(s) == SubSeq(s, 1, Len(s) - 1)

Uris == {"urn:a", "urn:b"}
Prefixes == {None, "p"}

\* "{%s}%s" % (ns_uri, local_name)
Clark(ns_uri, local_name) == <<"{", ns_uri, "}", local_name>>

----------------------------------------------------------------------------
(* ElementTreeContentHandler *)

\* a node as the handler creates it; nsmap is the mapping handed to the
\* element factory
Node(kind, tag, attrib, nsmap, target, text, parent) ==
    [kind |-> kind, tag |-> tag, target |-> target, text |-> text,
     tail |-> EmptyStr, nsmap |-> nsmap, attrib |-> attrib,
     children |-> << >>, parent |-> parent]

\* the text or tail a characters event would extend (sax.py 145-152)
CursorValue(ns, st) ==
    IF st = << >> THEN EmptyStr
    ELSE LET e == ns[Last(st)]
         IN IF e.children # << >> THEN ns[Last(e.children)].tail ELSE e.text

Raise(exc) ==
    /\ err' = exc
    /\ UNCHANGED builder

\* startDocument, endDocument: pass
startDocument ==
    /\ err' = NoErr
    /\ UNCHANGED builder

endDocument ==
    /\ err' = NoErr
    /\ UNCHANGED builder

\* startPrefixMapping that records the pending binding and the default
\* namespace but does not push onto the list of the prefix
startPrefixMappingNoPush(prefix, uri) ==
    /\ new_mappings' = Put(new_mappings, prefix, uri)
    /\ default_ns' = IF prefix = None THEN uri ELSE default_ns
    /\ err' = NoErr
    /\ UNCHANGED <<root, root_siblings, element_stack, ns_mapping, nodes,
                   preceding, chars_before, chars_run>>

\* startPrefixMapping that keeps the first uri announced for a prefix
startPrefixMappingFirstWins(prefix, uri) ==
    /\ new_mappings' = IF prefix \in DOMAIN new_mappings THEN new_mappings
                       ELSE Put(new_mappings, prefix, uri)
    /\ ns_mapping' = IF prefix \in DOMAIN ns_mapping
                     THEN [ns_mapping EXCEPT ![prefix] = Append(@, uri)]
                     ELSE Put(ns_mapping, prefix, <<uri>>)
    /\ default_ns' = IF prefix = None THEN uri ELSE default_ns
    /\ err' = NoErr
    /\ UNCHANGED <<root, root_siblings, element_stack, nodes, preceding,
                   chars_before, chars_run>>

startPrefixMapping(prefix, uri) ==
    /\ new_mappings' = Put(new_mappings, prefix, uri)
    /\ ns_mapping' = IF prefix \in DOMAIN ns_mapping
                     THEN [ns_mapping EXCEPT ![prefix] = Append(@, uri)]
                     ELSE Put(ns_mapping, prefix, <<uri>>)
    /\ default_ns' = IF prefix = None THEN uri ELSE default_ns
    /\ err' = NoErr
    /\ UNCHANGED <<root, root_siblings, element_stack, nodes, preceding,
                   chars_before, chars_run>>

\* endPrefixMapping that leaves the default namespace as it was
endPrefixMappingKeepDefault(prefix) ==
    IF prefix \notin DOMAIN ns_mapping
    THEN Raise("KeyError")
    ELSE IF ns_mapping[prefix] = << >>
    THEN Raise("IndexError")
    ELSE LET ns_uri_list == Front(ns_mapping[prefix])
         IN /\ ns_mapping' = [ns_mapping EXCEPT ![prefix] = ns_uri_list]
            /\ err' = IF prefix = None /\ ns_uri_list = << >>
                      THEN "IndexError" ELSE NoErr
            /\ UNCHANGED <<root, root_siblings, element_stack, default_ns,
                           new_mappings, nodes, preceding, chars_before,
                           chars_run>>

\* endPrefixMapping that lets an unmatched pop pass
endPrefixMappingLenient(prefix) ==
    IF prefix \notin DOMAIN ns_mapping \/ ns_mapping[prefix] = << >>
    THEN /\ err' = NoErr
         /\ UNCHANGED builder
    ELSE LET ns_uri_list == Front(ns_mapping[prefix])
         IN /\ ns_mapping' = [ns_mapping EXCEPT ![prefix] = ns_uri_list]
            /\ err' = NoErr
            /\ default_ns' = IF prefix # None THEN default_ns
                             ELSE IF ns_uri_list = << >> THEN None
                             ELSE Last(ns_uri_list)
            /\ UNCHANGED <<root, root_siblings, element_stack, new_mappings,
                           nodes, preceding, chars_before, chars_run>>

endPrefixMapping(prefix) ==
    IF prefix \notin DOMAIN ns_mapping
    THEN Raise("KeyError")                        \* self._ns_mapping[prefix]
    ELSE IF ns_mapping[prefix] = << >>
    THEN Raise("IndexError")                      \* pop from empty list
    ELSE LET ns_uri_list == Front(ns_mapping[prefix])
         IN /\ ns_mapping' = [ns_mapping EXCEPT ![prefix] = ns_uri_list]
            /\ IF prefix = None /\ ns_uri_list = << >>
               THEN /\ err' = "IndexError"        \* ns_uri_list[-1]
                    /\ UNCHANGED default_ns
               ELSE /\ err' = NoErr
                    /\ default_ns' = IF prefix = None THEN Last(ns_uri_list)
                                     ELSE default_ns
            /\ UNCHANGED <<root, root_siblings, element_stack, new_mappings,
                           nodes, preceding, chars_before, chars_run>>

buildTag(ns_uri, local_name) ==
    IF Truthy(ns_uri) THEN Clark(ns_uri, local_name)
    ELSE IF Truthy(default_ns) THEN Clark(default_ns, local_name)
    ELSE <<local_name>>

\* the attribute name resolved like a tag: the default namespace applies
attrNameWithDefault(name_tuple) ==
    IF Truthy(name_tuple[1]) THEN Clark(name_tuple[1], name_tuple[2])
    ELSE IF Truthy(default_ns) THEN Clark(default_ns, name_tuple[2])
    ELSE <<name_tuple[2]>>

\* sax.py 98-101
attrName(name_tuple) ==
    IF Truthy(name_tuple[1]) THEN Clark(name_tuple[1], name_tuple[2])
    ELSE <<name_tuple[2]>>

\* sax.py 90-104; a handler given no attributes passes None to the factory,
\* which creates an element without attributes
buildAttrs(attributes) ==
    [n \in {attrName(t) : t \in DOMAIN attributes} |->
        attributes[CHOOSE t \in DOMAIN attributes : attrName(t) = n]]

\* startElementNS that starts a new root when no element is open
startElementNSSecondRoot(ns_name, qname, attributes) ==
    LET el_name == buildTag(ns_name[1], ns_name[2])
        attrs == buildAttrs(attributes)
        element == Len(nodes) + 1
    IN IF element_stack = << >>
       THEN /\ root' = element
            /\ nodes' = Append(nodes, Node("Element", el_name, attrs,
                                           new_mappings, None, EmptyStr, 0))
            /\ preceding' = preceding \o root_siblings
            /\ root_siblings' = << >>
            /\ element_stack' = Append(element_stack, element)
            /\ new_mappings' = EmptyMap
            /\ chars_before' = CursorValue(nodes', element_stack')
            /\ chars_run' = EmptyStr
            /\ err' = NoErr
            /\ UNCHANGED <<default_ns, ns_mapping>>
       ELSE LET parent == Last(element_stack)
            IN /\ nodes' = Append(
                     [nodes EXCEPT ![parent].children = Append(@, element)],
                     Node("Element", el_name, attrs, new_mappings, None,
                          EmptyStr, parent))
               /\ element_stack' = Append(element_stack, element)
               /\ new_mappings' = EmptyMap
               /\ chars_before' = CursorValue(nodes', element_stack')
               /\ chars_run' = EmptyStr
               /\ err' = NoErr
               /\ UNCHANGED <<root, root_siblings, preceding, default_ns,
                              ns_mapping>>

startElementNS(ns_name, qname, attributes) ==
    LET el_name == buildTag(ns_name[1], ns_name[2])
        attrs == buildAttrs(attributes)
        element == Len(nodes) + 1
    IN IF root = 0
       THEN /\ root' = element
            /\ nodes' = Append(nodes, Node("Element", el_name, attrs,
                                           new_mappings, None, EmptyStr, 0))
            /\ preceding' = preceding \o root_siblings
            /\ root_siblings' = << >>
            /\ element_stack' = Append(element_stack, element)
            /\ new_mappings' = EmptyMap
            /\ chars_before' = CursorValue(nodes', element_stack')
            /\ chars_run' = EmptyStr
            /\ err' = NoErr
            /\ UNCHANGED <<default_ns, ns_mapping>>
       ELSE IF element_stack = << >>
       THEN Raise("IndexError")                   \* element_stack[-1]
       ELSE LET parent == Last(element_stack)
            IN /\ nodes' = Append(
                     [nodes EXCEPT ![parent].children = Append(@, element)],
                     Node("Element", el_name, attrs, new_mappings, None,
                          EmptyStr, parent))
               /\ element_stack' = Append(element_stack, element)
               /\ new_mappings' = EmptyMap
               /\ chars_before' = CursorValue(nodes', element_stack')
               /\ chars_run' = EmptyStr
               /\ err' = NoErr
               /\ UNCHANGED <<root, root_siblings, preceding, default_ns,
                              ns_mapping>>

\* processingInstruction that appends to the root instead of the open
\* element
processingInstructionToRoot(target, data) ==
    LET pi == Len(nodes) + 1
    IN IF root = 0
       THEN /\ nodes' = Append(nodes, Node("PI", << >>, EmptyMap, EmptyMap,
                                           target, data, 0))
            /\ root_siblings' = Append(root_siblings, pi)
            /\ chars_before' = CursorValue(nodes', element_stack)
            /\ chars_run' = EmptyStr
            /\ err' = NoErr
            /\ UNCHANGED <<root, element_stack, default_ns, ns_mapping,
                           new_mappings, preceding>>
       ELSE IF element_stack = << >>
       THEN Raise("IndexError")
       ELSE /\ nodes' = Append(
                  [nodes EXCEPT ![root].children = Append(@, pi)],
                  Node("PI", << >>, EmptyMap, EmptyMap, target, data, root))
            /\ chars_before' = CursorValue(nodes', element_stack)
            /\ chars_run' = EmptyStr
            /\ err' = NoErr
            /\ UNCHANGED <<root, root_siblings, element_stack, default_ns,
                           ns_mapping, new_mappings, preceding>>

processingInstruction(target, data) ==
    LET pi == Len(nodes) + 1
    IN IF root = 0
       THEN /\ nodes' = Append(nodes, Node("PI", << >>, EmptyMap, EmptyMap,
                                           target, data, 0))
            /\ root_siblings' = Append(root_siblings, pi)
            /\ chars_before' = CursorValue(nodes', element_stack)
            /\ chars_run' = EmptyStr
            /\ err' = NoErr
            /\ UNCHANGED <<root, element_stack, default_ns, ns_mapping,
                           new_mappings, preceding>>
       ELSE IF element_stack = << >>
       THEN Raise("IndexError")                   \* self._element_stack[-1]
       ELSE LET parent == Last(element_stack)
            IN /\ nodes' = Append(
                     [nodes EXCEPT ![parent].children = Append(@, pi)],
                     Node("PI", << >>, EmptyMap, EmptyMap, target, data,
                          parent))
               /\ chars_before' = CursorValue(nodes', element_stack)
               /\ chars_run' = EmptyStr
               /\ err' = NoErr
               /\ UNCHANGED <<root, root_siblings, element_stack, default_ns,
                              ns_mapping, new_mappings, preceding>>

\* endElementNS that pops without comparing the tags
endElementNSUnchecked(ns_name, qname) ==
    IF element_stack = << >>
    THEN Raise("IndexError")
    ELSE /\ element_stack' = Front(element_stack)
         /\ err' = NoErr
         /\ chars_before' = CursorValue(nodes, element_stack')
         /\ chars_run' = EmptyStr
         /\ UNCHANGED <<root, root_siblings, default_ns, ns_mapping,
                        new_mappings, nodes, preceding>>

endElementNS(ns_name, qname) ==
    IF element_stack = << >>
    THEN Raise("IndexError")                      \* pop from empty list
    ELSE LET element == Last(element_stack)
             el_tag == buildTag(ns_name[1], ns_name[2])
         IN /\ element_stack' = Front(element_stack)
            /\ err' = IF el_tag # nodes[element].tag THEN "SaxError"
                      ELSE NoErr
            /\ chars_before' = CursorValue(nodes, element_stack')
            /\ chars_run' = EmptyStr
            /\ UNCHANGED <<root, root_siblings, default_ns, ns_mapping,
                           new_mappings, nodes, preceding>>

\* characters that assigns the payload instead of appending it
charactersOverwrite(data) ==
    IF element_stack = << >>
    THEN Raise("IndexError")
    ELSE LET last_element == Last(element_stack)
             kids == nodes[last_element].children
         IN /\ nodes' = IF kids # << >>
                        THEN [nodes EXCEPT ![Last(kids)].tail = data]
                        ELSE [nodes EXCEPT ![last_element].text = data]
            /\ chars_run' = chars_run \o data
            /\ err' = NoErr
            /\ UNCHANGED <<root, root_siblings, element_stack, default_ns,
                           ns_mapping, new_mappings, preceding, chars_before>>

characters(data) ==
    IF element_stack = << >>
    THEN Raise("IndexError")                      \* self._element_stack[-1]
    ELSE LET last_element == Last(element_stack)
             kids == nodes[last_element].children
         IN /\ nodes' = IF kids # << >>
                        THEN [nodes EXCEPT ![Last(kids)].tail = @ \o data]
                        ELSE [nodes EXCEPT ![last_element].text = @ \o data]
            /\ chars_run' = chars_run \o data
            /\ err' = NoErr
            /\ UNCHANGED <<root, root_siblings, element_stack, default_ns,
                           ns_mapping, new_mappings, preceding, chars_before>>

\* the handler method an event names
Handle(e) ==
    CASE e.type = "startDocument" -> startDocument
      [] e.type = "endDocument" -> endDocument
      [] e.type = "startPrefixMapping" -> startPrefixMapping(e.prefix, e.uri)
      [] e.type = "endPrefixMapping" -> endPrefixMapping(e.prefix)
      [] e.type = "startElementNS" ->
             startElementNS(e.name, e.qname, e.attributes)
      [] e.type = "endElementNS" -> endElementNS(e.name, e.qname)
      [] e.type = "characters" -> characters(e.data)
      [] e.type = "processingInstruction" ->
             processingInstruction(e.target, e.data)

\* ElementTreeContentHandler.__init__
InitBuilder ==
    /\ root = 0
    /\ root_siblings = << >>
    /\ element_stack = << >>
    /\ default_ns = None
    /\ ns_mapping = [k \in {None} |-> <<None>>]
    /\ new_mappings = EmptyMap
    /\ nodes = << >>
    /\ preceding = << >>
    /\ chars_before = EmptyStr
    /\ chars_run = EmptyStr
    /\ ev = [type |-> "none", node |-> 0]
    /\ nev = 0
    /\ err = NoErr

----------------------------------------------------------------------------
(* ElementTreeProducer: the tree it walks *)

\* a node of the walked tree; an Element has tag, prefix, nsmap and attrib
\* (element.items() as a mapping from Clark name to value), a processing
\* instruction has target and text, a comment has text
TreeNode(kind, tag, prefix, target, text, tail, nsmap, attrib, parent) ==
    [kind |-> kind, tag |-> tag, prefix |-> prefix, target |-> target,
     text |-> text, tail |-> tail, nsmap |-> nsmap, attrib |-> attrib,
     parent |-> parent]

\* element.getparent(), 0 for None
getparent(d, n) == d[n].parent

\* the children of node n, in document order
Children(d, n) ==
    LET RECURSIVE kids(_)
        kids(k) == IF k > Len(d) THEN << >>
                   ELSE IF d[k].parent = n /\ k # n THEN <<k>> \o kids(k + 1)
                   ELSE kids(k + 1)
    IN kids(1)

\* the siblings of n: the nodes with the same parent (at document level, the
\* nodes without a parent), in document order
Siblings(d, n) == Children(d, d[n].parent)

\* element.getprevious() and element.getnext(), 0 for None
getprevious(d, n) ==
    LET before == {k \in 1..(n - 1) : d[k].parent = d[n].parent}
    IN IF before = {} THEN 0 ELSE CHOOSE k \in before : \A j \in before : j <= k

getnext(d, n) ==
    LET after == {k \in (n + 1)..Len(d) : d[k].parent = d[n].parent}
    IN IF after = {} THEN 0 ELSE CHOOSE k \in after : \A j \in after : k <= j

\* self._element: the walked element, the one Element at document level
Element(d) == CHOOSE n \in 1..Len(d) : d[n].parent = 0 /\ d[n].kind = "Element"

\* the nodes of the subtree of n
RECURSIVE Within(_, _, _)
Within(d, k, n) ==
    IF k = n THEN TRUE
    ELSE IF k = 0 \/ d[k].parent = 0 THEN FALSE
    ELSE Within(d, d[k].parent, n)

----------------------------------------------------------------------------
(* ElementTreeProducer._build_qname and _getNsTag *)

\* _getNsTag (sax.py 26-30)
getNsTag(tag) ==
    IF tag[1] = "{" THEN <<tag[2], tag[4]>> ELSE <<None, tag[1]>>

\* str(prefix) as code points, for sorted(prefixes, key=str)
str(pfx) ==
    CASE pfx = None -> <<78, 111, 110, 101>>
      [] pfx = "A" -> <<65>>
      [] pfx = "p" -> <<112>>
      [] pfx = "q" -> <<113>>

\* s < t for two strs
RECURSIVE StrLess(_, _)
StrLess(s, t) ==
    IF t = << >> THEN FALSE
    ELSE IF s = << >> THEN TRUE
    ELSE IF Head(s) # Head(t) THEN Head(s) < Head(t)
    ELSE StrLess(Tail(s), Tail(t))

\* sorted(keys, key=str)
RECURSIVE sorted(_)
sorted(keys) ==
    IF keys = {} THEN << >>
    ELSE LET least == CHOOSE k \in keys :
                          \A j \in keys : ~StrLess(str(j), str(k))
         IN <<least>> \o sorted(keys \ {least})

Unbound == "<unbound>"

\* the loop without its `continue`: the default key is taken like any other
RECURSIVE firstMatchingAny(_, _, _, _, _, _)
firstMatchingAny(order, k, prefix, ns_uri, prefixes, preferred_prefix) ==
    IF k > Len(order) THEN prefix
    ELSE IF prefixes[order[k]] = ns_uri THEN order[k]
    ELSE firstMatchingAny(order, k + 1, prefix, ns_uri, prefixes,
                          preferred_prefix)

\* the loop of sax.py 253-262 from position k on: the value of the local
\* variable prefix when the loop is left
RECURSIVE firstMatching(_, _, _, _, _, _)
firstMatching(order, k, prefix, ns_uri, prefixes, preferred_prefix) ==
    IF k > Len(order) THEN prefix
    ELSE LET pfx == order[k]
         IN IF prefixes[pfx] = ns_uri
            THEN IF pfx = None /\ preferred_prefix = AnyPrefix
                 THEN firstMatching(order, k + 1, pfx, ns_uri, prefixes,
                                    preferred_prefix)         \* continue
                 ELSE pfx                                     \* break
            ELSE firstMatching(order, k + 1, prefix, ns_uri, prefixes,
                               preferred_prefix)

\* _build_qname without the test of the preferred prefix
build_qname_no_preference(ns_uri, local_name, prefixes, preferred_prefix) ==
    IF ns_uri = None THEN <<NoErr, <<local_name>> >>
    ELSE LET prefix == firstMatching(sorted(DOMAIN prefixes), 1, Unbound,
                                     ns_uri, prefixes, preferred_prefix)
         IN IF prefix = Unbound THEN <<"UnboundLocalError", << >> >>
            ELSE IF prefix = None THEN <<NoErr, <<local_name>> >>
            ELSE <<NoErr, <<prefix, ":", local_name>> >>

\* _build_qname that falls back to the bare local name when no prefix is
\* bound to the namespace
build_qname_default(ns_uri, local_name, prefixes, preferred_prefix) ==
    IF ns_uri = None THEN <<NoErr, <<local_name>> >>
    ELSE LET prefix ==
                 IF Get(prefixes, preferred_prefix) = ns_uri
                 THEN preferred_prefix
                 ELSE firstMatching(sorted(DOMAIN prefixes), 1, None,
                                    ns_uri, prefixes, preferred_prefix)
         IN IF prefix = None THEN <<NoErr, <<local_name>> >>
            ELSE <<NoErr, <<prefix, ":", local_name>> >>

\* _build_qname (sax.py 245-267): <<exception or None, qualified name>>
build_qname(ns_uri, local_name, prefixes, preferred_prefix) ==
    IF ns_uri = None THEN <<NoErr, <<local_name>> >>
    ELSE LET prefix ==
                 IF Get(prefixes, preferred_prefix) = ns_uri
                 THEN preferred_prefix
                 ELSE firstMatching(sorted(DOMAIN prefixes), 1, Unbound,
                                    ns_uri, prefixes, preferred_prefix)
         IN IF prefix = Unbound THEN <<"UnboundLocalError", << >> >>
            ELSE IF prefix = None THEN <<NoErr, <<local_name>> >>
            ELSE <<NoErr, <<prefix, ":", local_name>> >>

----------------------------------------------------------------------------
(* ElementTreeProducer.saxify and _recursive_saxify *)

\* the call content_handler.<e.type>(...): the event is fired, and an
\* ElementTreeContentHandler handles it
Emit(e) ==
    /\ events' = Append(events, e)
    /\ ev' = e
    /\ nev' = nev + 1
    /\ IF handler = "ElementTreeContentHandler"
       THEN Handle(e)
       ELSE /\ err' = NoErr
            /\ UNCHANGED builder

\* a step of the walk that calls nothing
Silent == UNCHANGED <<builder, ev, nev, err, events>>

\* a new activation of _recursive_saxify(element)
Frame(element) ==
    [element |-> element, at |-> "enter", qname |-> << >>,
     attributes |-> EmptyMap, qnames |-> EmptyMap, new_prefixes |-> << >>,
     i |-> 1]

top == frames[Len(frames)]
call(element) == Append(frames, Frame(element))
goto(at) == [frames EXCEPT ![Len(frames)].at = at, ![Len(frames)].i = 1]
return == Front(frames)

\* the orders in which a dict may yield the items of set S
Orders(S) ==
    {o \in [1..Cardinality(S) -> S] :
        \A j, k \in 1..Cardinality(S) : j # k => o[j] # o[k]}

\* every binding of the namespace map of element n
newPrefixesAll(d, n) ==
    {<<prefix, d[n].nsmap[prefix]>> : prefix \in DOMAIN d[n].nsmap}

\* sax.py 206-212: the bindings of element n that its parent does not have
newPrefixes(d, n) ==
    LET parent_nsmap == IF getparent(d, n) = 0 THEN EmptyMap
                        ELSE d[getparent(d, n)].nsmap
    IN {<<prefix, d[n].nsmap[prefix]>> : prefix \in
           {x \in DOMAIN d[n].nsmap :
               Get(parent_nsmap, x) # d[n].nsmap[x]}}

\* sax.py 219-223
attrValues(d, n) ==
    [t \in {getNsTag(a) : a \in DOMAIN d[n].attrib} |->
        d[n].attrib[CHOOSE a \in DOMAIN d[n].attrib : getNsTag(a) = t]]

attrQnames(d, n) ==
    [t \in {getNsTag(a) : a \in DOMAIN d[n].attrib} |->
        build_qname(t[1], t[2], d[n].nsmap, AnyPrefix)]

\* sax.py 228-229
elementQname(d, n) ==
    build_qname(getNsTag(d[n].tag)[1], getNsTag(d[n].tag)[2], d[n].nsmap,
                d[n].prefix)

\* the scan that passes over the siblings that are not processing
\* instructions
RECURSIVE previousPIsPastOthers(_, _)
previousPIsPastOthers(d, n) ==
    LET sib == getprevious(d, n)
    IN IF sib = 0 THEN << >>
       ELSE IF d[sib].kind = "PI"
       THEN <<sib>> \o previousPIsPastOthers(d, sib)
       ELSE previousPIsPastOthers(d, sib)

\* sax.py 176-180: the processing instructions right before the element,
\* nearest first
RECURSIVE previousPIs(_, _)
previousPIs(d, n) ==
    LET sib == getprevious(d, n)
    IN IF sib # 0 /\ d[sib].kind = "PI" THEN <<sib>> \o previousPIs(d, sib)
       ELSE << >>

\* siblings[::-1]
RECURSIVE reversed(_)
reversed(q) == IF q = << >> THEN << >> ELSE Append(reversed(Tail(q)), Head(q))

\* sax.py 172-180
saxify_startDocument ==
    /\ pc = "saxify"
    /\ err = NoErr
    /\ Emit([type |-> "startDocument", node |-> 0])
    /\ siblings' = reversed(previousPIs(doc, Element(doc)))
    /\ pc' = "leading"
    /\ UNCHANGED <<doc, handler, sibling, frames, resolver>>

\* sax.py 181-182
saxify_leading ==
    /\ pc = "leading"
    /\ err = NoErr
    /\ frames = << >>
    /\ siblings # << >>
    /\ frames' = call(Head(siblings))
    /\ siblings' = Tail(siblings)
    /\ Silent
    /\ UNCHANGED <<doc, handler, pc, sibling, resolver>>

\* sax.py 184
saxify_element ==
    /\ pc = "leading"
    /\ err = NoErr
    /\ frames = << >>
    /\ siblings = << >>
    /\ frames' = call(Element(doc))
    /\ sibling' = Element(doc)
    /\ pc' = "trailing"
    /\ Silent
    /\ UNCHANGED <<doc, handler, siblings, resolver>>

\* sax.py 187-190
saxify_trailing ==
    /\ pc = "trailing"
    /\ err = NoErr
    /\ frames = << >>
    /\ getnext(doc, sibling) # 0
    /\ doc[getnext(doc, sibling)].kind = "PI"
    /\ frames' = call(getnext(doc, sibling))
    /\ sibling' = getnext(doc, sibling)
    /\ Silent
    /\ UNCHANGED <<doc, handler, pc, siblings, resolver>>

\* sax.py 188, 192
saxify_endDocument ==
    /\ pc = "trailing"
    /\ err = NoErr
    /\ frames = << >>
    /\ getnext(doc, sibling) # 0 => doc[getnext(doc, sibling)].kind # "PI"
    /\ Emit([type |-> "endDocument", node |-> 0])
    /\ pc' = "done"
    /\ UNCHANGED <<doc, handler, siblings, sibling, frames, resolver>>

running == err = NoErr /\ frames # << >>

\* sax.py 197-200, a processing instruction
visit_pi ==
    /\ running
    /\ top.at = "enter"
    /\ doc[top.element].kind = "PI"
    /\ Emit([type |-> "processingInstruction", node |-> top.element,
             target |-> doc[top.element].target,
             data |-> doc[top.element].text])
    /\ frames' = goto("tail")
    /\ UNCHANGED <<doc, handler, pc, siblings, sibling, resolver>>

\* the visit that fires an event for the comment
visit_comment_as_pi ==
    /\ running
    /\ top.at = "enter"
    /\ doc[top.element].kind = "Comment"
    /\ Emit([type |-> "processingInstruction", node |-> top.element,
             target |-> doc[top.element].target,
             data |-> doc[top.element].text])
    /\ frames' = goto("tail")
    /\ UNCHANGED <<doc, handler, pc, siblings, sibling, resolver>>

\* sax.py 197-198, a comment
visit_comment ==
    /\ running
    /\ top.at = "enter"
    /\ doc[top.element].kind = "Comment"
    /\ frames' = goto("tail")
    /\ Silent
    /\ UNCHANGED <<doc, handler, pc, siblings, sibling, resolver>>

\* sax.py 205-229, an element: no call is made; _build_qname may fail
visit_element ==
    /\ running
    /\ top.at = "enter"
    /\ doc[top.element].kind = "Element"
    /\ LET n == top.element
           qnames == attrQnames(doc, n)
           qname == elementQname(doc, n)
       IN IF (\E t \in DOMAIN qnames : qnames[t][1] # NoErr)
             \/ qname[1] # NoErr
          THEN /\ err' = "UnboundLocalError"
               /\ UNCHANGED <<builder, ev, nev, events, frames>>
          ELSE /\ \E new_prefixes \in Orders(newPrefixes(doc, n)) :
                    frames' = [frames EXCEPT ![Len(frames)] =
                       [element |-> n, at |-> "start", qname |-> qname[2],
                        attributes |-> attrValues(doc, n),
                        qnames |-> [t \in DOMAIN qnames |-> qnames[t][2]],
                        new_prefixes |-> new_prefixes, i |-> 1]]
               /\ Silent
    /\ UNCHANGED <<doc, handler, pc, siblings, sibling, resolver>>

\* sax.py 231-232
start_prefix ==
    /\ running
    /\ top.at = "start"
    /\ top.i <= Len(top.new_prefixes)
    /\ Emit([type |-> "startPrefixMapping", node |-> top.element,
             prefix |-> top.new_prefixes[top.i][1],
             uri |-> top.new_prefixes[top.i][2]])
    /\ frames' = [frames EXCEPT ![Len(frames)].i = @ + 1]
    /\ UNCHANGED <<doc, handler, pc, siblings, sibling, resolver>>

\* the element-start that goes on to the children without the text
start_element_no_text ==
    /\ running
    /\ top.at = "start"
    /\ top.i > Len(top.new_prefixes)
    /\ Emit([type |-> "startElementNS", node |-> top.element,
             name |-> getNsTag(doc[top.element].tag), qname |-> top.qname,
             attributes |-> top.attributes, qnames |-> top.qnames])
    /\ frames' = goto("children")
    /\ UNCHANGED <<doc, handler, pc, siblings, sibling, resolver>>

\* sax.py 233-234
start_element ==
    /\ running
    /\ top.at = "start"
    /\ top.i > Len(top.new_prefixes)
    /\ Emit([type |-> "startElementNS", node |-> top.element,
             name |-> getNsTag(doc[top.element].tag), qname |-> top.qname,
             attributes |-> top.attributes, qnames |-> top.qnames])
    /\ frames' = goto("text")
    /\ UNCHANGED <<doc, handler, pc, siblings, sibling, resolver>>

\* sax.py 235-236
element_text ==
    /\ running
    /\ top.at = "text"
    /\ IF doc[top.element].text # EmptyStr
       THEN Emit([type |-> "characters", node |-> top.element,
                  data |-> doc[top.element].text])
       ELSE Silent
    /\ frames' = goto("children")
    /\ UNCHANGED <<doc, handler, pc, siblings, sibling, resolver>>

\* sax.py 237-238
descend ==
    /\ running
    /\ top.at = "children"
    /\ top.i <= Len(Children(doc, top.element))
    /\ frames' = Append([frames EXCEPT ![Len(frames)].i = @ + 1],
                        Frame(Children(doc, top.element)[top.i]))
    /\ Silent
    /\ UNCHANGED <<doc, handler, pc, siblings, sibling, resolver>>

\* sax.py 239
end_element ==
    /\ running
    /\ top.at = "children"
    /\ top.i > Len(Children(doc, top.element))
    /\ Emit([type |-> "endElementNS", node |-> top.element,
             name |-> getNsTag(doc[top.element].tag), qname |-> top.qname])
    /\ frames' = goto("end")
    /\ UNCHANGED <<doc, handler, pc, siblings, sibling, resolver>>

\* the scope-end loop that ends after its first event
end_prefix_once ==
    /\ running
    /\ top.at = "end"
    /\ top.i <= Len(top.new_prefixes)
    /\ Emit([type |-> "endPrefixMapping", node |-> top.element,
             prefix |-> top.new_prefixes[top.i][1]])
    /\ frames' = [frames EXCEPT ![Len(frames)].i = Len(top.new_prefixes) + 1]
    /\ UNCHANGED <<doc, handler, pc, siblings, sibling, resolver>>

\* the scope-end loop over reversed(new_prefixes)
end_prefix_reversed ==
    /\ running
    /\ top.at = "end"
    /\ top.i <= Len(top.new_prefixes)
    /\ Emit([type |-> "endPrefixMapping", node |-> top.element,
             prefix |->
                 top.new_prefixes[Len(top.new_prefixes) + 1 - top.i][1]])
    /\ frames' = [frames EXCEPT ![Len(frames)].i = @ + 1]
    /\ UNCHANGED <<doc, handler, pc, siblings, sibling, resolver>>

\* sax.py 240-241
end_prefix ==
    /\ running
    /\ top.at = "end"
    /\ top.i <= Len(top.new_prefixes)
    /\ Emit([type |-> "endPrefixMapping", node |-> top.element,
             prefix |-> top.new_prefixes[top.i][1]])
    /\ frames' = [frames EXCEPT ![Len(frames)].i = @ + 1]
    /\ UNCHANGED <<doc, handler, pc, siblings, sibling, resolver>>

\* sax.py 201-203 and 242-243: the tail, and the return
element_tail ==
    /\ running
    /\ \/ top.at = "tail"
       \/ top.at = "end" /\ top.i > Len(top.new_prefixes)
    /\ IF doc[top.element].tail # EmptyStr
       THEN Emit([type |-> "characters", node |-> top.element,
                  data |-> doc[top.element].tail])
       ELSE Silent
    /\ frames' = return
    /\ UNCHANGED <<doc, handler, pc, siblings, sibling, resolver>>

----------------------------------------------------------------------------
(* The trees that are walked *)

\* an element as written: nsmap holds the declarations made on the element
\* itself; the tree gives it the bindings in scope and its parent
ElementShape(tag, prefix, text, tail, nsmap, attrib) ==
    TreeNode("Element", tag, prefix, None, text, tail, nsmap, attrib, 0)

ElementShapes ==
    {ElementShape(<<"b">>, None, <<"t">>, <<"u">>, EmptyMap,
                  <<"k">> :> "v"),
     ElementShape(Clark("urn:a", "a"), "p", <<"t">>, EmptyStr,
                  "p" :> "urn:a", Clark("urn:a", "k") :> "v"),
     ElementShape(Clark("urn:a", "b"), None, EmptyStr, <<"u">>,
                  (None :> "urn:a") @@ ("p" :> "urn:b"), EmptyMap),
     ElementShape(Clark("urn:b", "a"), "p", EmptyStr, EmptyStr,
                  (None :> "urn:a") @@ ("p" :> "urn:b"),
                  Clark("urn:a", "k") :> "v"),
     \* a tag in a namespace no prefix is bound to
     ElementShape(Clark("urn:b", "a"), "p", EmptyStr, EmptyStr,
                  "p" :> "urn:a", EmptyMap),
     \* an attribute in a namespace no prefix is bound to
     ElementShape(<<"a">>, None, EmptyStr, EmptyStr, "p" :> "urn:a",
                  Clark("urn:b", "k") :> "v")}

PIShape(target, tail) ==
    TreeNode("PI", << >>, None, target, <<"d">>, tail, EmptyMap, EmptyMap, 0)

CommentShape(tail) ==
    TreeNode("Comment", << >>, None, None, <<"c">>, tail, EmptyMap,
             EmptyMap, 0)

\* processing instructions and comments inside an element
LeafShapes ==
    {PIShape("y", <<"u">>), CommentShape(<<"u">>)}

\* processing instructions and comments at document level have no tail
TopShapes ==
    {PIShape("x", EmptyStr), PIShape("y", EmptyStr), PIShape("z", EmptyStr),
     CommentShape(EmptyStr)}

\* the ancestors of node k under the parent function p, and k itself
RECURSIVE AncestorsOrSelf(_, _)
AncestorsOrSelf(p, k) ==
    IF k = 0 THEN {} ELSE {k} \cup AncestorsOrSelf(p, p[k])

\* the parent functions of the trees with n nodes numbered in document order
Parents(n) ==
    {p \in [1..n -> 0..(n - 1)] :
        /\ p[1] = 0
        /\ \A k \in 2..n : p[k] \in AncestorsOrSelf(p, k - 1)}

\* the declarations in scope: those of the parent, overridden by the
\* element's own
Inherit(parent_nsmap, nsmap) ==
    [k \in DOMAIN parent_nsmap \cup DOMAIN nsmap |->
        IF k \in DOMAIN nsmap THEN nsmap[k] ELSE parent_nsmap[k]]

RECURSIVE nsmapOf(_, _, _)
nsmapOf(p, shapes, k) ==
    IF k = 0 \/ shapes[k].kind # "Element" THEN EmptyMap
    ELSE Inherit(nsmapOf(p, shapes, p[k]), shapes[k].nsmap)

\* the tree of the given shapes and parents, placed after `lead` nodes
Tree(p, shapes, lead) ==
    [k \in 1..Len(shapes) |->
        TreeNode(shapes[k].kind, shapes[k].tag, shapes[k].prefix,
                 shapes[k].target, shapes[k].text, shapes[k].tail,
                 nsmapOf(p, shapes, k), shapes[k].attrib,
                 IF p[k] = 0 THEN 0 ELSE p[k] + lead)]

Tops(max) == UNION {[1..n -> TopShapes] : n \in 0..max}

\* d is an element with up to MaxNodes nodes in its subtree
IsSubtree(d) ==
    \E n \in 1..MaxNodes :
        \E p \in Parents(n) :
            \E shapes \in [1..n -> ElementShapes \cup LeafShapes] :
                /\ shapes[1] \in ElementShapes
                /\ \A k \in 2..n : shapes[p[k]] \in ElementShapes
                /\ d = Tree(p, shapes, 0)

\* d is a childless element among up to MaxLead and MaxTrail siblings at
\* document level
IsDocument(d) ==
    \E lead \in Tops(MaxLead) :
        \E trail \in Tops(MaxTrail) :
            \E shape \in ElementShapes :
                d = lead \o Tree(<<0>>, <<shape>>, 0) \o trail

----------------------------------------------------------------------------
(* A handler driven directly by an event source *)

\* the arguments the event source draws from
Datas == {<<"s">>, <<"t">>}
Targets == {"x", "y"}
PrefixMappings == {<<None, "urn:a">>, <<None, "urn:b">>, <<"p", "urn:a">>}
\* (name, attributes) of an element-start event; attributes maps
\* (namespace URI, local name) to a value
StartElements ==
    {<<<<None, "a">>, EmptyMap>>,
     <<<<None, "b">>, <<None, "k">> :> "v">>,
     <<<<"urn:a", "a">>, <<"urn:a", "k">> :> "v">>}
EndElements ==
    {<<None, "a">>, <<None, "b">>, <<None, "c">>, <<"urn:a", "a">>}

IdleProducer ==
    /\ doc = << >>
    /\ handler = "ElementTreeContentHandler"
    /\ pc = "idle"
    /\ siblings = << >>
    /\ sibling = 0
    /\ frames = << >>
    /\ events = << >>

IdleResolver ==
    /\ qcall = [ns_uri |-> None, local_name |-> "a", prefixes |-> EmptyMap,
                preferred_prefix |-> None]
    /\ qres = <<"idle", << >> >>

\* the handler receives event e
Recv(e) ==
    /\ err = NoErr
    /\ nev < MaxEvents
    /\ ev' = e
    /\ nev' = nev + 1
    /\ Handle(e)
    /\ UNCHANGED <<producer, resolver>>

OnStartDocument ==
    \E type \in {"startDocument"} : Recv([type |-> type, node |-> 0])

OnEndDocument ==
    \E type \in {"endDocument"} : Recv([type |-> type, node |-> 0])

OnStartPrefixMapping ==
    \E m \in PrefixMappings :
        Recv([type |-> "startPrefixMapping", node |-> 0, prefix |-> m[1],
              uri |-> m[2]])

OnEndPrefixMapping ==
    \E prefix \in Prefixes :
        Recv([type |-> "endPrefixMapping", node |-> 0, prefix |-> prefix])

OnStartElementNS ==
    \E s \in StartElements :
        Recv([type |-> "startElementNS", node |-> 0, name |-> s[1],
              qname |-> <<s[1][2]>>, attributes |-> s[2]])

OnEndElementNS ==
    \E name \in EndElements :
        Recv([type |-> "endElementNS", node |-> 0, name |-> name,
              qname |-> <<name[2]>>])

OnCharacters ==
    \E data \in Datas :
        Recv([type |-> "characters", node |-> 0, data |-> data])

OnProcessingInstruction ==
    \E target \in Targets :
        Recv([type |-> "processingInstruction", node |-> 0,
              target |-> target, data |-> <<"d">>])

Init ==
    /\ InitBuilder
    /\ IdleProducer
    /\ IdleResolver

Next ==
    \/ OnStartDocument
    \/ OnEndDocument
    \/ OnStartPrefixMapping
    \/ OnEndPrefixMapping
    \/ OnStartElementNS
    \/ OnEndElementNS
    \/ OnCharacters
    \/ OnProcessingInstruction

Spec == Init /\ [][Next]_vars

\* the handler has just received an event of the given type
Received(type) == ev'.type = type /\ nev' = nev + 1

\* C4: endElementNS pops the stack of open elements and raises SaxError if
\* and only if the closing tag - the namespace of the event when it has
\* one, else the current default namespace, and the local name - differs
\* from the tag of the popped element in namespace or local name; the events
\* start (None, a), start (None, b), end (None, c) fail at the third.
ClosingTag(name) ==
    <<IF name[1] # None THEN name[1] ELSE default_ns, name[2]>>

C4_TagMismatch ==
    [][(Received("endElementNS") /\ element_stack # << >>)
       => /\ element_stack' = Front(element_stack)
          /\ err' \in {NoErr, "SaxError"}
          /\ err' = "SaxError"
             <=> ClosingTag(ev'.name)
                     # getNsTag(nodes[Last(element_stack)].tag)
          /\ (/\ nev = 2
              /\ element_stack = <<1, 2>>
              /\ nodes[1].tag = <<"a">>
              /\ nodes[2].tag = <<"b">>
              /\ ev'.name = <<None, "c">>) => err' = "SaxError"]_vars

\* C4 witness: start a, start b, end c has failed at the third event
C4_Witness ==
    /\ nev = 3
    /\ Len(nodes) = 2
    /\ nodes[1].tag = <<"a">>
    /\ nodes[2].tag = <<"b">>
    /\ nodes[2].parent = 1
    /\ ev.type = "endElementNS"
    /\ ev.name = <<None, "c">>
    /\ err = "SaxError"
    /\ element_stack = <<1>>

\* C5: a characters event received while an element is open appends its
\* payload to the tail of the last child of the open element if it has a
\* child, else to the text of the open element; during a run of characters
\* events not interrupted by an element or processing-instruction event the
\* text or tail is its value before the run followed by the payloads of the
\* run in the order received.
C5_TextAccumulation ==
    [][/\ (Received("characters") /\ element_stack # << >>)
          => LET kids == nodes[Last(element_stack)].children
             IN /\ err' = NoErr
                /\ element_stack' = element_stack
                /\ nodes' =
                     IF kids # << >>
                     THEN [nodes EXCEPT ![Last(kids)].tail = @ \o ev'.data]
                     ELSE [nodes EXCEPT
                             ![Last(element_stack)].text = @ \o ev'.data]
                /\ chars_before' = chars_before
                /\ chars_run' = chars_run \o ev'.data
       /\ (\E type \in {"startElementNS", "endElementNS",
                        "processingInstruction"} :
              Received(type) /\ builder' # builder)
          => /\ chars_run' = EmptyStr
             /\ chars_before' = CursorValue(nodes', element_stack')
       /\ (\E type \in {"startDocument", "endDocument", "startPrefixMapping",
                        "endPrefixMapping"} : Received(type))
          => /\ chars_run' = chars_run
             /\ chars_before' = chars_before
             /\ nodes' = nodes
             /\ element_stack' = element_stack
       /\ element_stack' # << >>
          => CursorValue(nodes', element_stack') = chars_before' \o chars_run'
      ]_vars

\* C5 witness: two characters events in a row have extended the tail of the
\* last child of the open element
C5_Witness ==
    /\ ev.type = "characters"
    /\ chars_run = <<"s", "t">>
    /\ element_stack # << >>
    /\ nodes[Last(element_stack)].children # << >>
    /\ nodes[Last(nodes[Last(element_stack)].children)].tail = <<"s", "t">>

\* the bindings of prefix that startPrefixMapping has pushed and
\* endPrefixMapping has not popped; the list of the default key starts as
\* [None]
Pushed(prefix) ==
    IF prefix \notin DOMAIN ns_mapping THEN 0
    ELSE Len(ns_mapping[prefix]) - (IF prefix = None THEN 1 ELSE 0)

\* C7 as stated: endPrefixMapping returns normally, whatever was pushed and
\* popped before it.
C7_EndPrefixMappingNeverFails ==
    ev.type = "endPrefixMapping" => err = NoErr

\* C7 as amended: endPrefixMapping(prefix) returns normally, popping one
\* binding, when the list of the prefix holds a binding pushed by
\* startPrefixMapping; otherwise it raises KeyError (no list for the
\* prefix) or IndexError (nothing left to pop, or nothing left under the
\* popped entry of the default key).
C7_EndPrefixMappingUnmatched ==
    [][Received("endPrefixMapping")
       => IF Pushed(ev'.prefix) > 0
          THEN /\ err' = NoErr
               /\ ns_mapping' =
                     [ns_mapping EXCEPT ![ev'.prefix] = Front(@)]
          ELSE err' = IF ev'.prefix \in DOMAIN ns_mapping THEN "IndexError"
                      ELSE "KeyError"]_vars

\* C7 witness: start p, end p, end p has failed at the third event
C7_Witness ==
    /\ nev = 3
    /\ ev.type = "endPrefixMapping"
    /\ ev.prefix = "p"
    /\ "p" \in DOMAIN ns_mapping
    /\ err = "IndexError"

\* C11: the first element-start creates the root, and no later event
\* changes the root; a later element-start appends the new element as the
\* last child of the element on top of the stack of open elements and
\* pushes it, and when no element is open any more it creates nothing, so
\* there is no second root; whenever the stack is not empty its bottom
\* entry is the root and every entry is a child of the entry below it.
C11_BuilderStructure ==
    [][/\ Received("startElementNS")
          => LET element == Len(nodes) + 1
             IN IF root = 0
                THEN /\ root' = element
                     /\ Len(nodes') = element
                     /\ nodes'[element].kind = "Element"
                     /\ nodes'[element].parent = 0
                     /\ element_stack' = <<element>>
                ELSE IF element_stack # << >>
                THEN /\ Len(nodes') = element
                     /\ nodes'[element].kind = "Element"
                     /\ nodes'[element].parent = Last(element_stack)
                     /\ nodes'[Last(element_stack)].children
                           = Append(nodes[Last(element_stack)].children,
                                    element)
                     /\ element_stack' = Append(element_stack, element)
                ELSE /\ nodes' = nodes
                     /\ element_stack' = << >>
                     /\ err' = "IndexError"
       /\ root # 0 => root' = root
       /\ element_stack' # << >>
          => /\ element_stack'[1] = root'
             /\ \A i \in 2..Len(element_stack') :
                   /\ nodes'[element_stack'[i]].parent = element_stack'[i - 1]
                   /\ \E c \in 1..Len(nodes'[element_stack'[i - 1]].children) :
                         nodes'[element_stack'[i - 1]].children[c]
                             = element_stack'[i]
      ]_vars

\* C11 witness: an element-start has arrived after the root was closed
C11_Witness ==
    /\ ev.type = "startElementNS"
    /\ root = 1
    /\ Len(nodes) >= 2
    /\ element_stack = << >>
    /\ err = "IndexError"

\* C12: a processing instruction received before the first element-start
\* is buffered; the first element-start makes the buffered ones the
\* preceding siblings of the root, in the order received, and empties the
\* buffer; a processing instruction received while an element is open
\* becomes the last child of the open element and leaves the stack of open
\* elements as it is.
C12_BuilderPIs ==
    [][/\ (Received("processingInstruction") /\ root = 0)
          => /\ root_siblings' = Append(root_siblings, Len(nodes) + 1)
             /\ Len(nodes') = Len(nodes) + 1
             /\ nodes'[Len(nodes')].kind = "PI"
             /\ nodes'[Len(nodes')].target = ev'.target
             /\ nodes'[Len(nodes')].text = ev'.data
             /\ nodes'[Len(nodes')].parent = 0
             /\ preceding' = << >>
             /\ root' = 0
       /\ (Received("startElementNS") /\ root = 0)
          => /\ preceding' = root_siblings
             /\ root_siblings' = << >>
       /\ (Received("processingInstruction") /\ element_stack # << >>)
          => /\ element_stack' = element_stack
             /\ Len(nodes') = Len(nodes) + 1
             /\ nodes'[Len(nodes')].kind = "PI"
             /\ nodes'[Len(nodes')].target = ev'.target
             /\ nodes'[Len(nodes')].text = ev'.data
             /\ nodes'[Len(nodes')].parent = Last(element_stack)
             /\ nodes'[Last(element_stack)].children
                   = Append(nodes[Last(element_stack)].children,
                            Len(nodes'))
             /\ preceding' = preceding
       /\ root' # 0 => root_siblings' = << >>
      ]_vars

\* C12 witness: two buffered processing instructions precede the root and a
\* third has become a child of the open element
C12_Witness ==
    /\ ev.type = "processingInstruction"
    /\ root = 3
    /\ preceding = <<1, 2>>
    /\ nodes[1].target = "x"
    /\ nodes[2].target = "y"
    /\ element_stack = <<3>>
    /\ nodes[3].children = <<4>>
    /\ nodes[4].kind = "PI"

\* C13 as stated: the namespace map of the element an element-start
\* creates is the set of bindings pending since the previous element-start,
\* and the pending set is empty after every element-start.
C13_PendingEmptyAfterStart ==
    [][Received("startElementNS")
       => /\ new_mappings' = EmptyMap
          /\ Len(nodes') = Len(nodes) + 1
             => nodes'[Len(nodes')].nsmap = new_mappings]_vars

\* C13 as amended: startPrefixMapping records its binding as pending, the
\* latest uri winning when a prefix is announced twice; no event but an
\* element-start that creates an element takes bindings out of the pending
\* set; the namespace map of the element it creates is exactly the pending
\* set and the pending set is empty after it, so no binding is handed to
\* two elements; an element-start that fails because no element is open
\* leaves the pending set as it was.
C13_PendingBindings ==
    [][/\ Received("startPrefixMapping")
          => /\ DOMAIN new_mappings' = DOMAIN new_mappings \cup {ev'.prefix}
             /\ new_mappings'[ev'.prefix] = ev'.uri
             /\ \A x \in DOMAIN new_mappings \ {ev'.prefix} :
                   new_mappings'[x] = new_mappings[x]
       /\ (Received("startElementNS") /\ err' = NoErr)
          => /\ Len(nodes') = Len(nodes) + 1
             /\ nodes'[Len(nodes')].nsmap = new_mappings
             /\ new_mappings' = EmptyMap
       /\ (Received("startElementNS") /\ err' # NoErr)
          => /\ nodes' = nodes
             /\ new_mappings' = new_mappings
       /\ (nev' = nev + 1
           /\ ev'.type \notin {"startPrefixMapping", "startElementNS"})
          => /\ new_mappings' = new_mappings
             /\ \A n \in 1..Len(nodes) : nodes'[n].nsmap = nodes[n].nsmap
      ]_vars

\* C13 witness: a prefix was announced twice before the element-start, and
\* the element has the later uri
C13_Witness ==
    /\ nev = 3
    /\ ev.type = "startElementNS"
    /\ Len(nodes) = 1
    /\ nodes[1].nsmap = (None :> "urn:b")
    /\ ns_mapping[None] = <<None, "urn:a", "urn:b">>
    /\ new_mappings = EmptyMap

\* C14: while every endPrefixMapping is matched by an earlier
\* startPrefixMapping, the current default namespace is the top of the list
\* of the default key - the uri of the innermost default binding still
\* open, None when none is open - and binding or unbinding another prefix
\* leaves it unchanged.
C14_DefaultTracking ==
    [][/\ err' = NoErr
          => /\ default_ns' = Last(ns_mapping'[None])
             /\ Len(ns_mapping'[None]) = 1 => default_ns' = None
       /\ (Received("startPrefixMapping") /\ ev'.prefix = None)
          => default_ns' = ev'.uri
       /\ (Received("startPrefixMapping") /\ ev'.prefix # None)
          => default_ns' = default_ns
       /\ (Received("endPrefixMapping") /\ ev'.prefix # None)
          => default_ns' = default_ns
      ]_vars

\* C14 witness: of two default bindings the inner one has been closed
C14_Witness ==
    /\ nev = 3
    /\ ev.type = "endPrefixMapping"
    /\ ev.prefix = None
    /\ ns_mapping[None] = <<None, "urn:a">>
    /\ default_ns = "urn:a"
    /\ err = NoErr

----------------------------------------------------------------------------
(* saxify(element, handler) *)

InitWalk(content_handler) ==
    /\ InitBuilder
    /\ IdleResolver
    /\ IsSubtree(doc) \/ IsDocument(doc)
    /\ handler = content_handler
    /\ pc = "saxify"
    /\ siblings = << >>
    /\ sibling = 0
    /\ frames = << >>
    /\ events = << >>

NextWalk ==
    \/ saxify_startDocument
    \/ saxify_leading
    \/ saxify_element
    \/ saxify_trailing
    \/ saxify_endDocument
    \/ visit_pi
    \/ visit_comment
    \/ visit_element
    \/ start_prefix
    \/ start_element
    \/ element_text
    \/ descend
    \/ end_element
    \/ end_prefix
    \/ element_tail

\* the events of a tree, fired at a handler that accepts every event
InitSaxify == InitWalk("ContentHandler")
SpecSaxify == InitSaxify /\ [][NextWalk]_vars

\* the events of a tree, fired at a fresh ElementTreeContentHandler
InitRoundTrip == InitWalk("ElementTreeContentHandler")
SpecRoundTrip == InitRoundTrip /\ [][NextWalk]_vars

\* the positions in events of the events of the given type fired for node n
At(type, n) ==
    {i \in 1..Len(events) : events[i].type = type /\ events[i].node = n}

\* the prefixes of the events of the given type fired for node n, in order
PrefixesOf(type, n) ==
    LET Test(e) == e.type = type /\ e.node = n
        fired == SelectSeq(events, Test)
    IN [i \in 1..Len(fired) |-> fired[i].prefix]

\* C3: in the events of a walk that has completed, every startPrefixMapping
\* is followed by exactly one endPrefixMapping of the same prefix for the
\* same element; the pair encloses the startElementNS and endElementNS of
\* that element and only events of its subtree, and a pair opened inside it
\* for another element is closed inside it.
C3_ScopePairing ==
    pc = "done" =>
        \A i \in 1..Len(events) :
            events[i].type = "startPrefixMapping" =>
                LET n == events[i].node
                    ends == {j \in At("endPrefixMapping", n) :
                                events[j].prefix = events[i].prefix}
                IN /\ Cardinality(ends) = 1
                   /\ \A j \in ends :
                        /\ i < j
                        /\ \E s, e \in (i + 1)..(j - 1) :
                              /\ s < e
                              /\ s \in At("startElementNS", n)
                              /\ e \in At("endElementNS", n)
                        /\ \A k \in i..j : Within(doc, events[k].node, n)
                        /\ \A k \in (i + 1)..(j - 1) :
                              (/\ events[k].type = "startPrefixMapping"
                               /\ events[k].node # n)
                              => \E m \in (k + 1)..(j - 1) :
                                    /\ m \in At("endPrefixMapping",
                                                events[k].node)
                                    /\ events[m].prefix = events[k].prefix

\* C3 witness: a completed walk in which an element that introduced a
\* binding has a descendant that introduced one
C3_Witness ==
    /\ pc = "done"
    /\ \E i, k \in 1..Len(events) :
          /\ i < k
          /\ events[i].type = "startPrefixMapping"
          /\ events[k].type = "startPrefixMapping"
          /\ events[i].node # events[k].node
          /\ Within(doc, events[k].node, events[i].node)

\* the scope events of element n lie around its element events
ScopesAround(n) ==
    /\ \A i \in At("startPrefixMapping", n) :
          \A s \in At("startElementNS", n) : i < s
    /\ \A j \in At("endPrefixMapping", n) :
          \A e \in At("endElementNS", n) : e < j

Unresolvable(d, n) ==
    \E t \in {getNsTag(d[n].tag)} \cup {getNsTag(a) : a \in DOMAIN d[n].attrib} :
        /\ t[1] # None
        /\ \A x \in DOMAIN d[n].nsmap : d[n].nsmap[x] # t[1]

\* C8: the walk fails when it comes to an element whose tag or attribute
\* has a namespace no prefix of its namespace map is bound to; no event of
\* that element is fired before the failure - no scope-start or
\* element-start of such an element is ever fired - and no event is fired
\* after it: no element-end of an open ancestor and no endDocument.
C8_UnresolvableNamespace ==
    [][/\ (/\ running
           /\ top.at = "enter"
           /\ doc[top.element].kind = "Element"
           /\ Unresolvable(doc, top.element)
           /\ vars' # vars)
          => /\ err' = "UnboundLocalError"
             /\ events' = events
       /\ err = "UnboundLocalError" => events' = events
       /\ err' = "UnboundLocalError"
          => /\ frames' # << >>
             /\ Unresolvable(doc, Last(frames').element)
             /\ \A i \in 1..Len(events') :
                   /\ events'[i].node # Last(frames').element
                   /\ events'[i].type # "endDocument"
                   /\ events'[i].type = "endElementNS"
                      => \A f \in 1..Len(frames') :
                            events'[i].node # frames'[f].element
             /\ pc' # "done"
       /\ \A i \in 1..Len(events') :
             events'[i].node # 0 /\ doc[events'[i].node].kind = "Element"
             => ~Unresolvable(doc, events'[i].node)
       /\ pc' = "done"
          => \A n \in 1..Len(doc) :
                Within(doc, n, Element(doc)) /\ doc[n].kind = "Element"
                => ~Unresolvable(doc, n)
      ]_vars

\* C8 witness: the walk has failed at a child element, after the
\* element-start of its parent
C8_Witness ==
    /\ err = "UnboundLocalError"
    /\ frames # << >>
    /\ doc[top.element].parent # 0
    /\ At("startElementNS", doc[top.element].parent) # {}
    /\ At("endElementNS", doc[top.element].parent) = {}

\* the bindings of element n that its parent does not have
NewBindings(d, n) ==
    {x \in DOMAIN d[n].nsmap :
        \/ d[n].parent = 0
        \/ x \notin DOMAIN d[d[n].parent].nsmap
        \/ d[d[n].parent].nsmap[x] # d[n].nsmap[x]}

Repeat(x, count) == [i \in (1..count) |-> x]
Chars(n, s) == IF s = EmptyStr THEN << >> ELSE <<<<"characters", n, s>>>>

\* the events the walk of node n is to fire: type, node and payload
RECURSIVE Expected(_, _)
RECURSIVE ExpectedAll(_, _)
Expected(d, n) ==
    CASE d[n].kind = "Comment" -> Chars(n, d[n].tail)
      [] d[n].kind = "PI" ->
             <<<<"processingInstruction", n, d[n].text>>>>
             \o Chars(n, d[n].tail)
      [] d[n].kind = "Element" ->
             Repeat(<<"startPrefixMapping", n, << >> >>,
                    Cardinality(NewBindings(d, n)))
             \o <<<<"startElementNS", n, << >> >>>>
             \o Chars(n, d[n].text)
             \o ExpectedAll(d, Children(d, n))
             \o <<<<"endElementNS", n, << >> >>>>
             \o Repeat(<<"endPrefixMapping", n, << >> >>,
                       Cardinality(NewBindings(d, n)))
             \o Chars(n, d[n].tail)

ExpectedAll(d, ns) ==
    IF ns = << >> THEN << >>
    ELSE Expected(d, Head(ns)) \o ExpectedAll(d, Tail(ns))

\* the siblings of the walked element that are walked with it: the
\* processing instructions next to it, with only processing instructions
\* in between
Walked(d) ==
    LET IsWalked(n) ==
            /\ d[n].parent = 0
            /\ \A k \in 1..Len(d) :
                  (/\ d[k].parent = 0
                   /\ \/ n <= k /\ k < Element(d)
                      \/ Element(d) < k /\ k <= n)
                  => d[k].kind = "PI"
    IN SelectSeq([n \in 1..Len(d) |-> n], IsWalked)

Fired ==
    [i \in 1..Len(events) |->
        <<events[i].type, events[i].node,
          IF events[i].type \in {"characters", "processingInstruction"}
          THEN events[i].data ELSE << >> >>]

\* C10: a completed walk has fired one startDocument, first, and one
\* endDocument, last; in between, for every element in this order: one
\* scope-start per new binding, the element-start, characters for a
\* non-empty text, all the events of each child in child order, the
\* element-end, one scope-end per new binding, characters for a non-empty
\* tail; the element-start and element-end of an element carry the same
\* name and qname.
C10_EventOrder ==
    pc = "done" =>
        /\ Fired = <<<<"startDocument", 0, << >> >>>>
                   \o ExpectedAll(doc, Walked(doc))
                   \o <<<<"endDocument", 0, << >> >>>>
        /\ \A n \in 1..Len(doc) :
              \A s \in At("startElementNS", n) :
                  \A e \in At("endElementNS", n) :
                      /\ events[s].name = events[e].name
                      /\ events[s].qname = events[e].qname
                      /\ events[s].name = getNsTag(doc[n].tag)

\* C10 witness: a completed walk of an element with a new binding, a text
\* and a child element that has a tail
C10_Witness ==
    /\ pc = "done"
    /\ \E n \in 1..Len(doc) :
          /\ doc[n].kind = "Element"
          /\ doc[n].text # EmptyStr
          /\ NewBindings(doc, n) # {}
          /\ \E k \in 1..Len(doc) :
                /\ doc[k].parent = n
                /\ doc[k].kind = "Element"
                /\ doc[k].tail # EmptyStr
          /\ At("endElementNS", n) # {}

\* a tree of elements and processing instructions, walked on its own, in
\* which every namespace of a tag or attribute is bound in the namespace map
\* of the element and no element without a namespace has a default
\* namespace in scope
RoundTrippable(d) ==
    /\ Len(Children(d, 0)) = 1
    /\ \A n \in 1..Len(d) :
          /\ d[n].kind # "Comment"
          /\ d[n].kind = "Element"
             => /\ ~Unresolvable(d, n)
                /\ getNsTag(d[n].tag)[1] = None
                   => None \notin DOMAIN d[n].nsmap

\* the tree the handler has built has the nodes of d: the same tags,
\* attributes, text, tail and children in the same order
SameTree(d) ==
    /\ Len(nodes) = Len(d)
    /\ root = Element(d)
    /\ \A n \in 1..Len(d) :
          n <= Len(nodes) =>
              /\ nodes[n].kind = d[n].kind
              /\ nodes[n].parent = d[n].parent
              /\ nodes[n].children = Children(d, n)
              /\ nodes[n].text = d[n].text
              /\ nodes[n].tail = d[n].tail
              /\ d[n].kind = "PI" => nodes[n].target = d[n].target
              /\ d[n].kind = "Element"
                 => /\ getNsTag(nodes[n].tag) = getNsTag(d[n].tag)
                    /\ nodes[n].attrib = d[n].attrib

\* C1: the events of saxify(T), fed in order to a fresh
\* ElementTreeContentHandler, build a tree with the tags, attributes, text,
\* tail and child order of T, for every tree T of elements and processing
\* instructions whose namespaces are bound and that has no element without
\* a namespace in a default-namespace scope.
C1_RoundTrip ==
    RoundTrippable(doc) =>
        /\ err = NoErr
        /\ pc = "done" => SameTree(doc)

\* C1 witness: a tree with a child element and a processing instruction
\* has gone through the handler and come out the same
C1_Witness ==
    /\ RoundTrippable(doc)
    /\ pc = "done"
    /\ err = NoErr
    /\ SameTree(doc)
    /\ \E n, k \in 1..Len(doc) :
          /\ doc[n].parent # 0
          /\ doc[k].parent # 0
          /\ doc[n].kind = "Element"
          /\ doc[k].kind = "PI"

\* the targets of the processing instructions with the given indices
TargetsOf(ns) == [i \in 1..Len(ns) |-> nodes[ns[i]].target]

\* the nodes the handler has placed after the root, at document level
Following ==
    LET IsAfter(n) == root # 0 /\ n > root /\ nodes[n].parent = 0
    IN SelectSeq([n \in 1..Len(nodes) |-> n], IsAfter)

\* the document PI(x), PI(y), Element(root), PI(z)
TwoPIsRootPI(d) ==
    /\ Len(d) = 4
    /\ \A n \in 1..4 : d[n].parent = 0
    /\ d[1].kind = "PI" /\ d[1].target = "x"
    /\ d[2].kind = "PI" /\ d[2].target = "y"
    /\ d[3].kind = "Element" /\ ~Unresolvable(d, 3) /\ d[3].tail = EmptyStr
    /\ d[4].kind = "PI" /\ d[4].target = "z"

\* C2: for the document PI(x), PI(y), Element(root), PI(z), saxify into a
\* fresh ElementTreeContentHandler completes without error and builds a
\* tree with PI(x), PI(y) before the root, in that order, and PI(z) after
\* it.
C2_SiblingPIs ==
    TwoPIsRootPI(doc) =>
        /\ err = NoErr
        /\ pc = "done"
           => /\ TargetsOf(preceding) = <<"x", "y">>
              /\ TargetsOf(Following) = <<"z">>

\* C2 witness: PI(x), PI(y) have been placed before the root, in that order
C2_Witness ==
    /\ TwoPIsRootPI(doc)
    /\ root # 0
    /\ TargetsOf(preceding) = <<"x", "y">>
    /\ element_stack = << >>
    /\ err = NoErr

\* the name under which an attribute is to be stored
StoredAttr(t) == IF t[1] # None THEN Clark(t[1], t[2]) ELSE <<t[2]>>

\* C15: an element-start with a namespace creates an element in that
\* namespace; without one it creates an element in the current default
\* namespace when one is bound and an element without a namespace
\* otherwise; an attribute without a namespace is stored without one, also
\* when a default namespace is bound; the qname of the event has no part in
\* the tag.
C15_BuilderTagResolution ==
    [][(Received("startElementNS") /\ err' = NoErr)
       => /\ Len(nodes') = Len(nodes) + 1
          /\ getNsTag(nodes'[Len(nodes')].tag)
                = <<IF ev'.name[1] # None THEN ev'.name[1] ELSE default_ns,
                    ev'.name[2]>>
          /\ DOMAIN nodes'[Len(nodes')].attrib
                = {StoredAttr(t) : t \in DOMAIN ev'.attributes}
          /\ \A t \in DOMAIN ev'.attributes :
                nodes'[Len(nodes')].attrib[StoredAttr(t)]
                    = ev'.attributes[t]]_vars

\* C15 witness: an element-start without a namespace, with an attribute
\* without a namespace, has arrived while a default namespace is bound
C15_Witness ==
    /\ ev.type = "startElementNS"
    /\ err = NoErr
    /\ ev.name = <<None, "b">>
    /\ default_ns = "urn:a"
    /\ nodes[Len(nodes)].tag = Clark("urn:a", "b")
    /\ DOMAIN nodes[Len(nodes)].attrib = {<<"k">>}

\* the startPrefixMapping events fired for element n, as (prefix, uri)
AnnouncedFor(n) ==
    LET Test(e) == e.type = "startPrefixMapping" /\ e.node = n
        fired == SelectSeq(events, Test)
    IN [i \in 1..Len(fired) |-> <<fired[i].prefix, fired[i].uri>>]

\* C17: the startPrefixMapping events fired for an element are exactly the
\* pairs of its namespace map whose prefix the parent's map lacks or binds
\* to another uri, each once; a binding inherited unchanged is not
\* announced again, and for the walked element, which has no parent, every
\* pair of its map is announced.
C17_NewBindingDiff ==
    \A n \in 1..Len(doc) :
        At("startElementNS", n) # {}
        => LET announced == AnnouncedFor(n)
               new == {<<x, doc[n].nsmap[x]>> : x \in NewBindings(doc, n)}
           IN /\ {announced[i] : i \in 1..Len(announced)} = new
              /\ Len(announced) = Cardinality(new)
              /\ doc[n].parent = 0
                 => Len(announced) = Cardinality(DOMAIN doc[n].nsmap)
              /\ doc[n].parent # 0
                 => \A i \in 1..Len(announced) :
                       Get(doc[doc[n].parent].nsmap, announced[i][1])
                           # announced[i][2]

\* C17 witness: a child that rebinds one prefix of its parent and inherits
\* another has had its element-start
C17_Witness ==
    \E n \in 1..Len(doc) :
        /\ doc[n].parent # 0
        /\ At("startElementNS", n) # {}
        /\ Len(AnnouncedFor(n)) = 1
        /\ Cardinality(DOMAIN doc[n].nsmap) = 2
        /\ Cardinality(DOMAIN doc[doc[n].parent].nsmap) = 2

\* the nodes at document level
TopLevel(d) == {k \in 1..Len(d) : d[k].parent = 0}

\* the processing instructions right before and right after the walked
\* element, with only processing instructions between them and it
LeadingRun(d) ==
    LET InRun(k) ==
            /\ k \in TopLevel(d)
            /\ k < Element(d)
            /\ \A j \in TopLevel(d) :
                  (k <= j /\ j < Element(d)) => d[j].kind = "PI"
    IN SelectSeq([k \in 1..Len(d) |-> k], InRun)

TrailingRun(d) ==
    LET InRun(k) ==
            /\ k \in TopLevel(d)
            /\ Element(d) < k
            /\ \A j \in TopLevel(d) :
                  (Element(d) < j /\ j <= k) => d[j].kind = "PI"
    IN SelectSeq([k \in 1..Len(d) |-> k], InRun)

\* the nodes of the events at the positions that satisfy Keep, in order
NodesFired(Keep(_)) ==
    LET kept == SelectSeq([i \in 1..Len(events) |-> i], Keep)
    IN [i \in 1..Len(kept) |-> events[kept[i]].node]

FiredFor(n) ==
    LET Test(f) == f[2] = n
        fired == SelectSeq(Fired, Test)
    IN [i \in 1..Len(fired) |-> <<fired[i][1], fired[i][3]>>]

\* the nodes a completed walk has visited
Visited(d, n) ==
    \/ Within(d, n, Element(d))
    \/ \E i \in 1..Len(LeadingRun(d)) : LeadingRun(d)[i] = n
    \/ \E i \in 1..Len(TrailingRun(d)) : TrailingRun(d)[i] = n

TailFired(d, n) ==
    IF d[n].tail = EmptyStr THEN << >> ELSE <<<<"characters", d[n].tail>>>>

\* C19: the visit of a processing instruction fires one
\* processingInstruction event with its target and data, the visit of a
\* comment fires no event for the comment; in both cases a non-empty tail
\* follows as one characters event, and nothing else is fired for the
\* node: no scope-start, element-start or element-end, and no event of a
\* node below it.
C19_CommentAndPINodes ==
    pc = "done" =>
        \A n \in 1..Len(doc) :
            Visited(doc, n) =>
                /\ doc[n].kind = "PI"
                   => /\ FiredFor(n)
                           = <<<<"processingInstruction", doc[n].text>>>>
                             \o TailFired(doc, n)
                      /\ \A i \in At("processingInstruction", n) :
                            events[i].target = doc[n].target
                /\ doc[n].kind = "Comment" => FiredFor(n) = TailFired(doc, n)
                /\ doc[n].kind # "Element"
                   => \A i \in 1..Len(events) :
                         (events[i].node # 0 /\ events[i].node # n)
                         => ~Within(doc, events[i].node, n)

\* C19 witness: a completed walk of an element with a processing
\* instruction and a comment as children, both with a tail
C19_Witness ==
    /\ pc = "done"
    /\ \E n, k \in 1..Len(doc) :
          /\ doc[n].kind = "PI"
          /\ doc[k].kind = "Comment"
          /\ doc[n].parent # 0
          /\ doc[k].parent # 0
          /\ FiredFor(n) = <<<<"processingInstruction", <<"d">> >>,
                             <<"characters", <<"u">> >> >>
          /\ FiredFor(k) = <<<<"characters", <<"u">> >> >>

\* C20: while the events of a walk are fed to a fresh handler, at every
\* element-start the top of the handler's list for each prefix of the
\* element's namespace map is the uri the map gives the prefix; at
\* endDocument the list of every prefix is back to what it was at the start
\* - [None] for the default key, nothing for the others - and the current
\* default namespace is None.
C20_ScopeAgreement ==
    [][/\ Received("startElementNS")
          => \A x \in DOMAIN doc[ev'.node].nsmap :
                /\ x \in DOMAIN ns_mapping'
                /\ ns_mapping'[x] # << >>
                /\ Last(ns_mapping'[x]) = doc[ev'.node].nsmap[x]
       /\ Received("endDocument")
          => /\ default_ns' = None
             /\ \A x \in DOMAIN ns_mapping' :
                   ns_mapping'[x] = IF x = None THEN <<None>> ELSE << >>
      ]_vars

\* C20 witness: the walk of an element with a child that rebinds a prefix
\* and the default namespace has completed
C20_Witness ==
    /\ pc = "done"
    /\ err = NoErr
    /\ ns_mapping = (None :> <<None>>) @@ ("p" :> << >>)
    /\ \E n \in 1..Len(doc) :
          /\ doc[n].parent # 0
          /\ doc[n].kind = "Element"
          /\ doc[doc[n].parent].nsmap = ("p" :> "urn:a")
          /\ doc[n].nsmap = (None :> "urn:a") @@ ("p" :> "urn:b")

----------------------------------------------------------------------------
(* _build_qname(ns_uri, local_name, prefixes, preferred_prefix) on its own *)

QPrefixes == {"A", None, "p", "q"}
QMaps == UNION {[D -> Uris] : D \in SUBSET QPrefixes}
Pending == <<"pending", << >> >>

InitQName ==
    /\ InitBuilder
    /\ IdleProducer
    /\ qcall \in [ns_uri : Uris \cup {None}, local_name : {"a"},
                  prefixes : QMaps,
                  preferred_prefix : QPrefixes \cup {AnyPrefix}]
    /\ qres = Pending

call_build_qname ==
    /\ qres = Pending
    /\ qres' = build_qname(qcall.ns_uri, qcall.local_name, qcall.prefixes,
                           qcall.preferred_prefix)
    /\ UNCHANGED <<builder, ev, nev, err, producer, qcall>>

NextQName == call_build_qname

SpecQName == InitQName /\ [][NextQName]_vars

\* C6: with the any-prefix flag, a URI bound to some non-default prefix
\* resolves to prefix:local_name for the first such prefix in the order of
\* the prefixes as strings, never to the bare local name, wherever the
\* default key sorts; the bare local name is the result only when the
\* default key is the only binding of the URI.
NonDefault(q) ==
    {x \in DOMAIN q.prefixes \ {None} : q.prefixes[x] = q.ns_uri}

FirstOf(S) == CHOOSE x \in S : \A y \in S \ {x} : StrLess(str(x), str(y))

C6_AttributeAvoidsDefault ==
    (qres # Pending /\ qcall.preferred_prefix = AnyPrefix
                    /\ qcall.ns_uri # None)
    => /\ NonDefault(qcall) # {}
          => qres = <<NoErr, <<FirstOf(NonDefault(qcall)), ":",
                               qcall.local_name>> >>
       /\ qres = <<NoErr, <<qcall.local_name>> >>
          => /\ NonDefault(qcall) = {}
             /\ Get(qcall.prefixes, None) = qcall.ns_uri

\* C6 witness: {None: urn:a, p: urn:a} has resolved urn:a to p:a
C6_Witness ==
    /\ qcall.preferred_prefix = AnyPrefix
    /\ qcall.ns_uri = "urn:a"
    /\ qcall.prefixes = (None :> "urn:a") @@ ("p" :> "urn:a")
    /\ qres = <<NoErr, <<"p", ":", "a">> >>

\* the keys of the map bound to the namespace of the call, the default key
\* among them
BoundTo(q) == {x \in DOMAIN q.prefixes : q.prefixes[x] = q.ns_uri}

Qualified(prefix, local_name) ==
    IF prefix = None THEN <<local_name>> ELSE <<prefix, ":", local_name>>

\* C16: for an element (a preferred prefix, possibly the default key,
\* instead of the any-prefix flag): without a namespace the result is the
\* bare local name; else the preferred prefix is used if the map binds it
\* to the namespace; else the first key bound to the namespace in the order
\* of the keys as strings, the default key as "None" and not skipped; a
\* prefix gives prefix:local_name and the default key the bare local name.
C16_ElementQName ==
    (qres # Pending /\ qcall.preferred_prefix # AnyPrefix)
    => IF qcall.ns_uri = None
       THEN qres = <<NoErr, <<qcall.local_name>> >>
       ELSE IF Get(qcall.prefixes, qcall.preferred_prefix) = qcall.ns_uri
       THEN qres = <<NoErr, Qualified(qcall.preferred_prefix,
                                      qcall.local_name)>>
       ELSE BoundTo(qcall) # {}
            => qres = <<NoErr, Qualified(FirstOf(BoundTo(qcall)),
                                         qcall.local_name)>>

\* C16 witness: with {None: urn:a, p: urn:a} and a preferred prefix the map
\* does not bind, urn:a has resolved to the bare local name
C16_Witness ==
    /\ qcall.preferred_prefix = "q"
    /\ qcall.ns_uri = "urn:a"
    /\ qcall.prefixes = (None :> "urn:a") @@ ("p" :> "urn:a")
    /\ qres = <<NoErr, <<"a">> >>

====
